---- MODULE Spec2Model ----
(***************************************************************************)
(* Model of the agent route (src/src/app/api/agent/route.ts): the model    *)
(* gateway sendAnthropicMessages, the plan parser parseClaudeResponse and  *)
(* the request handler POST, together with the MCP client it drives        *)
(* (src/unnamed/part_001).                                                 *)
(*                                                                         *)
(* Texts are sequences of tokens.  Structural characters are kept one by   *)
(* one; a token that is a letter stands for a run of characters holding    *)
(* no bracket, brace, comma, blank or fence:                               *)
(*   "[" "]" "{" "}" ","   the JSON structural characters                  *)
(*   "_"                   one blank (space or newline)                    *)
(*   "F"                   a code fence (three backquotes)                 *)
(*   "j"                   the word json after an opening fence            *)
(*   "a" "b" "z"           the member "tool":"a" (resp. b, z)              *)
(*   "p" "q" "r"           a member with a scalar value ("p":1, ...,       *)
(*                         "reasoning":"...")                              *)
(*   "k"                   a member key and its colon ("parameters":);     *)
(*                         a value follows                                 *)
(*   "n"                   a scalar value (a number, a string, a boolean)  *)
(*   "N"                   the literal null                                *)
(*   "x"                   prose that is not JSON                          *)
(***************************************************************************)
EXTENDS Integers, Sequences, FiniteSets, TLC

ToolAtoms == {"a", "b", "z"}
MemberAtoms == ToolAtoms \cup {"p", "q", "r"}

IsWs(c) == c = "_"

---------------------------------------------------------------------------
(* String helpers of the JavaScript runtime used by the parser.            *)

Min(S) == CHOOSE x \in S : \A y \in S : x <= y
Max(S) == CHOOSE x \in S : \A y \in S : x >= y

\* the positions of s that hold no blank
Solid(s) == {i \in 1..Len(s) : ~IsWs(s[i])}

\* String.prototype.trimEnd
TrimRight(s) == IF Solid(s) = {} THEN << >> ELSE SubSeq(s, 1, Max(Solid(s)))

\* String.prototype.trim
Trim(s) == IF Solid(s) = {} THEN << >> ELSE SubSeq(s, Min(Solid(s)), Max(Solid(s)))

\* String.prototype.includes for a one-token needle
Includes(s, c) == \E i \in 1..Len(s) : s[i] = c

\* String.prototype.endsWith for a one-token needle
EndsWith(s, c) == s # << >> /\ s[Len(s)] = c

\* index of the first non-blank token at or after i (Len(s)+1 when none): \s*
SkipWs(s, i) == Min({j \in i..(Len(s) + 1) : j = Len(s) + 1 \/ ~IsWs(s[j])})

\* the text without its blanks
Strip(s) == SelectSeq(s, LAMBDA c : ~IsWs(c))

\* Array.prototype.join(",") on a sequence of texts
RECURSIVE JoinComma(_)
JoinComma(parts) ==
  IF parts = << >> THEN << >>
  ELSE IF Len(parts) = 1 THEN parts[1]
  ELSE parts[1] \o <<",">> \o JoinComma(Tail(parts))

---------------------------------------------------------------------------
(* JSON.parse, over tokens.                                                *)

Openers == {"[", "{"}
Closers == {"]", "}"}
ValueStart == {"[", "{", "n", "N"}
MemberStart == MemberAtoms \cup {"k"}

\* the number of containers open after each token of a blank-free text
Depth(t) ==
  [i \in 0..Len(t) |->
     Cardinality({j \in 1..i : t[j] \in Openers}) - Cardinality({j \in 1..i : t[j] \in Closers})]

\* Whether the JSON grammar lets token c follow token b inside container
\* inside ("[" or "{"): after an opener or a comma comes a value (in an
\* array) or a member (in an object), or the closer of an empty container;
\* after a key comes a value; after a value or member comes a comma or the
\* closer of its container.
Follows(b, c, inside) ==
  IF b = "[" THEN c \in ValueStart \cup {"]"}
  ELSE IF b = "{" THEN c \in MemberStart \cup {"}"}
  ELSE IF b = "k" THEN c \in ValueStart
  ELSE IF b = "," THEN (IF inside = "[" THEN c \in ValueStart ELSE c \in MemberStart)
  ELSE IF b \in {"n", "N", "]", "}"} \cup MemberAtoms
    THEN c = "," \/ (c = "]" /\ inside = "[") \/ (c = "}" /\ inside = "{")
  ELSE FALSE

\* whether the text is one JSON value (blanks allowed around tokens)
JValid(s) ==
  LET t == Strip(s)
      n == Len(t)
      d == Depth(t)
      \* the innermost container still open before token i
      Inside(i) == t[Max({j \in 1..(i - 1) : t[j] \in Openers /\ d[j] = d[i - 1]})]
  IN /\ n >= 1
     /\ t[1] \in ValueStart
     /\ d[n] = 0
     /\ \A i \in 1..(n - 1) : d[i] >= 1
     /\ \A i \in 2..n : Follows(t[i - 1], t[i], Inside(i))

\* The elements of a valid, blank-free array text, each as its own text:
\* the stretches between the commas that lie directly in the array.
ArrayItems(t) ==
  LET d == Depth(t)
      n == Len(t)
      cuts == {1, n} \cup {i \in 2..(n - 1) : t[i] = "," /\ d[i] = 1}
      Nth(m) == CHOOSE i \in cuts : Cardinality({j \in cuts : j < i}) = m - 1
  IN IF n = 2 THEN << >>
     ELSE [m \in 1..(Cardinality(cuts) - 1) |-> SubSeq(t, Nth(m) + 1, Nth(m + 1) - 1)]

\* JSON.parse: throws (ok = FALSE) on a text that is not JSON; otherwise the
\* value: an array with its elements in order, an object, null, or another
\* scalar.
JSONParse(s) ==
  IF ~JValid(s) THEN [ok |-> FALSE, kind |-> "error", items |-> << >>]
  ELSE
    LET t == Strip(s) IN
      IF t[1] = "[" THEN [ok |-> TRUE, kind |-> "array", items |-> ArrayItems(t)]
      ELSE IF t[1] = "{" THEN [ok |-> TRUE, kind |-> "object", items |-> <<t>>]
      ELSE IF t[1] = "N" THEN [ok |-> TRUE, kind |-> "null", items |-> <<t>>]
      ELSE [ok |-> TRUE, kind |-> "scalar", items |-> <<t>>]

---------------------------------------------------------------------------
(* parseClaudeResponse (route.ts 93-156).                                  *)

\* Variant of ObjectLookahead: the alternative \s*\] is missing.
ObjectLookaheadCommaOnly(s, j) ==
  LET p == SkipWs(s, j + 1) IN
    /\ p <= Len(s)
    /\ s[p] = "," /\ LET q == SkipWs(s, p + 1) IN q <= Len(s) /\ s[q] = "{"

\* the lookahead (?=\s*,\s*\{|\s*\]) tried right after position j
ObjectLookahead(s, j) ==
  LET p == SkipWs(s, j + 1) IN
    /\ p <= Len(s)
    /\ \/ s[p] = "," /\ LET q == SkipWs(s, p + 1) IN q <= Len(s) /\ s[q] = "{"
       \/ s[p] = "]"

\* \{[\s\S]*?\} from an opening brace: the first closing brace at or after j
\* that the lookahead accepts, 0 when there is none
ObjectEnd(s, j) ==
  LET ends == {e \in j..Len(s) : s[e] = "}" /\ ObjectLookahead(s, e)} IN
    IF ends = {} THEN 0 ELSE Min(ends)

\* Variant of MatchObjects: the pattern \{[^{}]*\} with the same lookahead,
\* which matches innermost objects only.
RECURSIVE MatchObjectsInnermost(_, _)
MatchObjectsInnermost(s, from) ==
  LET Braces(i) == {j \in (i + 1)..Len(s) : s[j] \in {"{", "}"}}
      Closes(i) == Braces(i) # {} /\ s[Min(Braces(i))] = "}"
                     /\ ObjectLookahead(s, Min(Braces(i)))
      starts == {i \in from..Len(s) : s[i] = "{" /\ Closes(i)}
  IN IF starts = {} THEN << >>
     ELSE <<SubSeq(s, Min(starts), Min(Braces(Min(starts))))>>
            \o MatchObjectsInnermost(s, Min(Braces(Min(starts))) + 1)

\* responseText.match(/\{[\s\S]*?\}(?=\s*,\s*\{|\s*\])/g) || [] : the
\* successive leftmost matches, each search resuming after the last match
RECURSIVE MatchObjects(_, _)
MatchObjects(s, from) ==
  LET starts == {i \in from..Len(s) : s[i] = "{" /\ ObjectEnd(s, i + 1) # 0} IN
    IF starts = {} THEN << >>
    ELSE <<SubSeq(s, Min(starts), ObjectEnd(s, Min(starts) + 1))>>
           \o MatchObjects(s, ObjectEnd(s, Min(starts) + 1) + 1)

\* index of the first token c at or after i, 0 when there is none
IndexFrom(s, c, i) ==
  LET at == {j \in i..Len(s) : s[j] = c} IN IF at = {} THEN 0 ELSE Min(at)

\* responseText.match(/```(?:json)?\s*([\s\S]*?)\s*```/): matched = FALSE
\* when the text holds no pair of fences, else group is the capture
CodeBlock(s) ==
  LET f1 == IndexFrom(s, "F", 1)
      f2 == IF f1 = 0 THEN 0 ELSE IndexFrom(s, "F", f1 + 1)
  IN IF f2 = 0 THEN [matched |-> FALSE, group |-> << >>]
     ELSE
       LET afterTag == IF f1 + 1 < f2 /\ s[f1 + 1] = "j" THEN f1 + 2 ELSE f1 + 1
           cs == SkipWs(s, afterTag)
       IN [matched |-> TRUE, group |-> TrimRight(SubSeq(s, cs, f2 - 1))]

\* jsonString.replace(/,\s*$/, "")
DropTrailingComma(s) ==
  LET t == TrimRight(s) IN
    IF EndsWith(t, ",") THEN SubSeq(t, 1, Len(t) - 1) ELSE s

\* const isTruncated = !responseText.trim().endsWith("]") && responseText.includes("[")
IsTruncated(responseText) ==
  ~EndsWith(Trim(responseText), "]") /\ Includes(responseText, "[")

\* the value returned (threw = FALSE) or the throw of the last line; via
\* names the return statement taken
parseClaudeResponse(responseText) ==
  LET objects == MatchObjects(responseText, 1)
      reconstructed == JSONParse(<<"[">> \o JoinComma(objects) \o <<"]">>)
      match == CodeBlock(responseText)
      jsonString == IF match.matched THEN Trim(match.group) ELSE Trim(responseText)
      direct == JSONParse(jsonString)
      completed == JSONParse(DropTrailingComma(jsonString) \o <<"]">>)
      Ret(via, v) == [threw |-> FALSE, via |-> via, kind |-> v.kind, items |-> v.items]
  IN
    IF IsTruncated(responseText) /\ objects # << >> /\ reconstructed.ok
      THEN Ret("reconstruct", reconstructed)
    ELSE IF direct.ok THEN Ret("direct", direct)
    ELSE IF Includes(jsonString, "[") /\ ~EndsWith(Trim(jsonString), "]") /\ completed.ok
      THEN Ret("completion", completed)
    ELSE [threw |-> TRUE, via |-> "throw", kind |-> "error", items |-> << >>]

---------------------------------------------------------------------------
(* Plan texts as the model collaborator writes them.  A plan is a JSON     *)
(* array of action objects; ObjectPool holds the shapes actions take:      *)
(*   1  {"tool":"a"}                                                       *)
(*   2  {"tool":"b","parameters":{"p":1},"reasoning":".."}                 *)
(*   3  {"tool":"a","parameters":[{"p":1},{"q":2}]}                        *)

ObjectPool ==
  << <<"{", "a", "}">>,
     <<"{", "b", ",", "k", "{", "p", "}", ",", "r", "}">>,
     <<"{", "a", ",", "k", "[", "{", "p", "}", ",", "{", "q", "}", "]", "}">> >>

MaxPlanLen == 3

Plans == UNION {[1..n -> 1..Len(ObjectPool)] : n \in 0..MaxPlanLen}

\* the action objects of a plan, in order
PlanObjects(plan) == [i \in 1..Len(plan) |-> ObjectPool[plan[i]]]

\* "[" and the first m objects of the plan, comma separated; pretty puts a
\* blank after the bracket and after each separating comma
RECURSIVE RenderUpTo(_, _, _)
RenderUpTo(plan, pretty, m) ==
  LET sp == IF pretty THEN <<"_">> ELSE << >> IN
    IF m = 0 THEN <<"[">> \o sp
    ELSE IF m = 1 THEN <<"[">> \o sp \o ObjectPool[plan[1]]
    ELSE RenderUpTo(plan, pretty, m - 1) \o <<",">> \o sp \o ObjectPool[plan[m]]

\* the whole array text
RenderPlan(plan, pretty) ==
  RenderUpTo(plan, pretty, Len(plan)) \o (IF pretty THEN <<"_">> ELSE << >>) \o <<"]">>

\* the text inside a fenced block tagged json
Fenced(text) == <<"F", "j", "_">> \o text \o <<"_", "F">>

IsPrefix(s, t) == Len(s) <= Len(t) /\ s = SubSeq(t, 1, Len(s))

---------------------------------------------------------------------------
(* State.                                                                  *)

VARIABLES
  \* the parser on its own
  pPlan,            \* the plan the model collaborator meant to write
  pPretty,          \* whether it wrote the array with blanks
  pText,            \* the text handed to parseClaudeResponse
  pFenced,          \* the text was wrapped in a fenced block
  pCut,             \* the text was cut off
  pStage,           \* "text", "parsed" ("off" while a request is modelled)
  pOut,             \* what parseClaudeResponse returned or threw
  \* buildToolsDescription on its own
  dTools,           \* toolsWithSchemas
  dMaxTools,        \* maxTools
  dMaxChars,        \* maxChars
  dStage,           \* "args", "returned" ("off" otherwise)
  dOut,             \* the text returned
  \* the planning message batch on its own
  mHistory,         \* conversationHistory of the body
  mContext,         \* pageContext of the body
  mStage,           \* "body", "built" ("off" otherwise)
  mMessages,        \* const messages
  \* the IAgent component (part_002)
  uStage,           \* "mounted" ("off" otherwise)
  uPrompt,          \* state prompt
  uResponse,        \* state response
  uLoading,         \* state loading
  uLogs,            \* state logs
  uHistory,         \* state conversationHistory
  uFlight,          \* the handleExecute call awaiting its fetch, with the
                    \* values of the render it was started from
  uSent,            \* requests submitted so far
  uClock,           \* the clock read by new Date()
  uDropped,         \* the messages clearHistory removed since the last submit
                    \* while a request was in flight
  \* one request handled by POST
  pc,               \* where POST stands
  client,           \* let client: "null" or "open"
  transport,        \* the MCP transport: "idle", "connected", "closed"
  closeCalls,       \* calls of client.close()
  toolsList,        \* the tool names the MCP server lists
  toolsResponse,    \* toolsResponse.tools
  toolsWithSchemas, \* the catalog built by the schema loop
  pageContext,      \* "absent", "noId" or "id"
  conversationHistory, \* the history of the request body, when present
  messages,         \* const messages: the planning message batch
  logs,             \* const logs: string[]
  console,          \* console.warn lines of the gateway
  phase,            \* which sendAnthropicMessages call runs: "plan", "summary"
  attempt,          \* let attempt of sendAnthropicMessages
  lastErr,          \* let lastErr of sendAnthropicMessages
  sleeps,           \* the delays slept, in order
  modelCalls,       \* calls of anthropic.messages.create
  planMessage,      \* the message returned for the plan
  finalResponse,    \* the message returned for the summary
  actionPlan,       \* let actionPlan
  index,            \* 1-based position of the for loop
  results,          \* const results: any[]
  calls,            \* the callTool requests issued, in order
  inflight,         \* callTool requests issued and not yet settled
  outcomes,         \* how each callTool settled: "ok", "isError", "throws"
  thrown,           \* the error on its way to the catch block
  responses         \* the responses POST returned

pvars == <<pPlan, pPretty, pText, pFenced, pCut, pStage, pOut>>
rvars == <<pc, conversationHistory, messages, client, transport, closeCalls, toolsList, toolsResponse,
           toolsWithSchemas, pageContext, logs, console, lastErr, phase, attempt, sleeps,
           modelCalls, planMessage, finalResponse, actionPlan, index, results,
           calls, inflight, outcomes, thrown, responses>>
dvars == <<dTools, dMaxTools, dMaxChars, dStage, dOut>>
mvars == <<mHistory, mContext, mStage, mMessages>>
uvars == <<uStage, uPrompt, uResponse, uLoading, uLogs, uHistory, uFlight, uSent, uClock, uDropped>>
fvars == <<pvars, dvars, mvars, uvars>>
vars == <<fvars, rvars>>

---------------------------------------------------------------------------
(* The parser on its own: ParseSpec draws a plan, renders it, optionally   *)
(* wraps it in a fence and cuts it off, and applies parseClaudeResponse.   *)

NoOut == [threw |-> FALSE, via |-> "none", kind |-> "none", items |-> << >>]

\* model output wrapped in a fenced block
WrapInFence ==
  /\ pStage = "text" /\ ~pFenced
  /\ pText' = Fenced(pText)
  /\ pFenced' = TRUE
  /\ UNCHANGED <<pPlan, pPretty, pCut, pStage, pOut>>

\* model output truncated after its first n tokens (stop_reason max_tokens)
CutOff ==
  /\ pStage = "text" /\ ~pCut
  /\ \E n \in 1..(Len(pText) - 1) : pText' = SubSeq(pText, 1, n)
  /\ pCut' = TRUE
  /\ UNCHANGED <<pPlan, pPretty, pFenced, pStage, pOut>>

Parse ==
  /\ pStage = "text"
  /\ pOut' = parseClaudeResponse(pText)
  /\ pStage' = "parsed"
  /\ UNCHANGED <<pPlan, pPretty, pText, pFenced, pCut>>

---------------------------------------------------------------------------
(* One request handled by POST (route.ts 158-433).                         *)

maxRetries == 3

BaseDelay == 500

\* Variant of Delay: the delay grows by the base delay at every attempt.
DelayLinear(n) == BaseDelay * n

\* 500 * Math.pow(2, attempt - 1)
Delay(n) == BaseDelay * 2 ^ (n - 1)

\* an audit or console line: its wording, the step number it prints (0 when
\* it prints none) and the name or count it prints ("" when none)
Line(msg, step, arg) == [msg |-> msg, step |-> step, arg |-> arg]

NoError == Line("", 0, "")

\* the tool lists an MCP server may return
Catalogs ==
  { << >>, <<"a">>, <<"a", "b">>, <<"a", "b", "content_items.list">> }

MaxSchemaFailures == 1

\* failures of anthropic.messages.create: err.status, err.error.type and
\* whether err.error.message holds the words "rate limit"
ModelErrors ==
  { [status |-> 429, type |-> "rate_limit_error", rateWords |-> TRUE],
    [status |-> 429, type |-> "none", rateWords |-> FALSE],
    [status |-> 400, type |-> "rate_limit_error", rateWords |-> FALSE],
    [status |-> 503, type |-> "api_error", rateWords |-> TRUE],
    [status |-> 529, type |-> "overloaded_error", rateWords |-> FALSE],
    [status |-> 500, type |-> "api_error", rateWords |-> FALSE] }

\* let lastErr: any = null
NullErr == [status |-> 0, type |-> "null", rateWords |-> FALSE]

\* Variant of IsRateLimit: an overloaded gateway (status 529) counts as a
\* rate-limit signal too.
IsRateLimitOrOverloaded(err) ==
  err.status = 429 \/ err.status = 529 \/ err.type = "rate_limit_error" \/ err.rateWords

\* const isRateLimit = status === 429 || body?.type === "rate_limit_error" || ...
IsRateLimit(err) ==
  err.status = 429 \/ err.type = "rate_limit_error" \/ err.rateWords

\* the messages the model collaborator may answer the plan request with
PlanMessages ==
  LET Text(t, stop) == [type |-> "text", text |-> t, stop_reason |-> stop] IN
    { Text(RenderPlan(<<1>>, FALSE), "end_turn"),
      Text(RenderPlan(<<1, 2, 1>>, TRUE), "end_turn"),
      Text(Fenced(RenderPlan(<<2, 3>>, TRUE)), "end_turn"),
      Text(RenderUpTo(<<1, 2, 3>>, FALSE, 2), "max_tokens"),
      Text(<<"[", "{", "z", "}", ",", "{", "a", "}", "]">>, "end_turn"),
      Text(<<"[", "{", "a", "}", ",", "{", "z", "}", ",", "{", "b", "}", "]">>, "end_turn"),
      Text(<<"[", "]">>, "end_turn"),
      Text(<<"{", "a", "}">>, "end_turn"),
      Text(<<"x", "_", "x">>, "end_turn"),
      Text(<<"n">>, "end_turn"),
      Text(<<"N">>, "end_turn"),
      [type |-> "tool_use", text |-> << >>, stop_reason |-> "tool_use"] }

\* action.tool of a parsed array element: the tool member at the top level
\* of the object, "undefined" when the element has none
RECURSIVE TopTool(_, _, _, _)
TopTool(t, i, depth, found) ==
  IF i > Len(t) THEN found
  ELSE IF t[i] \in {"[", "{"} THEN TopTool(t, i + 1, depth + 1, found)
  ELSE IF t[i] \in {"]", "}"} THEN TopTool(t, i + 1, depth - 1, found)
  ELSE IF depth = 1 /\ t[i] \in ToolAtoms THEN TopTool(t, i + 1, depth, t[i])
  ELSE TopTool(t, i + 1, depth, found)

ToolOf(item) ==
  IF item # << >> /\ item[1] = "{" THEN TopTool(item, 1, 0, "undefined") ELSE "undefined"

\* index of the last token of the value that starts at i
RECURSIVE ValueEnd(_, _, _)
ValueEnd(t, i, depth) ==
  IF i > Len(t) THEN Len(t)
  ELSE IF t[i] \in {"[", "{"} THEN ValueEnd(t, i + 1, depth + 1)
  ELSE IF t[i] \in {"]", "}"} THEN (IF depth = 1 THEN i ELSE ValueEnd(t, i + 1, depth - 1))
  ELSE IF depth = 0 THEN i
  ELSE ValueEnd(t, i + 1, depth)

\* position of the key at the top level of an object text, 0 when none
RECURSIVE TopKey(_, _, _)
TopKey(t, i, depth) ==
  IF i > Len(t) THEN 0
  ELSE IF t[i] \in {"[", "{"} THEN TopKey(t, i + 1, depth + 1)
  ELSE IF t[i] \in {"]", "}"} THEN TopKey(t, i + 1, depth - 1)
  ELSE IF depth = 1 /\ t[i] = "k" THEN i
  ELSE TopKey(t, i + 1, depth)

\* action.parameters: the value of the parameters member, << >> for undefined
ParametersOf(item) ==
  IF item # << >> /\ item[1] = "{" /\ TopKey(item, 1, 0) # 0
    THEN SubSeq(item, TopKey(item, 1, 0) + 1, ValueEnd(item, TopKey(item, 1, 0) + 1, 0))
  ELSE << >>

\* what the plan loop reads of an array element
ActionOf(item) == [tool |-> ToolOf(item), parameters |-> ParametersOf(item)]

\* Variant of FallbackPlan: the listing is scoped to an item in every case.
FallbackPlanScoped(ctx) ==
  [kind |-> "array",
   items |-> << [tool |-> "content_items.list",
                 parameters |-> <<"{", "page", ",", "pageSize", ",", "itemId", "}">>] >>]

\* the fallback plan of the parse catch block (route.ts 301-313)
FallbackPlan(ctx) ==
  [kind |-> "array",
   items |-> << [tool |-> "content_items.list",
                 parameters |-> IF ctx = "id"
                                  THEN <<"{", "page", ",", "pageSize", ",", "itemId", "}">>
                                  ELSE <<"{", "page", ",", "pageSize", "}">>] >>]

\* Variant of Result: every result is the one the first request was answered
\* with.
ResultOfFirst(isError, call) == [isError |-> isError, call |-> 1]

\* a callTool result: whether it reports isError, and the request it answers
Result(isError, call) == [isError |-> isError, call |-> call]

\* Variant of Push: new lines are put in front of the log.
PushFront(seq, lines) == lines \o seq

\* logs.push(...), for the lines a stretch of code pushes in a row
Push(seq, lines) == seq \o lines

---------------------------------------------------------------------------
(* buildToolsDescription (route.ts 53-90).  Its text is a sequence of      *)
(* characters; a tool name, a property name and a printed number each      *)
(* count as one character.                                                 *)

\* slice(0, n) of an array and substring(0, n) of a text, for n >= 0
Take(seq, n) == SubSeq(seq, 1, Min({n, Len(seq)}))

DescChars == 80

PropNames == 5

NoDescription ==
  <<"N", "o", " ", "d", "e", "s", "c", "r", "i", "p", "t", "i", "o", "n">>

Ellipsis == <<".", ".", ".">>

\* a description of n characters
DescriptionOf(n) == [i \in 1..n |-> "d"]

\* propNames.join(", ") for n property names
RECURSIVE JoinProps(_)
JoinProps(n) ==
  IF n = 0 THEN << >>
  ELSE IF n = 1 THEN <<"p">>
  ELSE JoinProps(n - 1) \o <<",", " ", "p">>

\* let desc of one turn of the loop (route.ts 62-77): tool.description is a
\* text of tool.description characters (0 for a missing or empty one), and
\* tool.props counts the properties of a schema that is not null
ToolLine(tool) ==
  <<"-", " ", tool.name, ":", " ">>
    \o (IF tool.description = 0 THEN NoDescription
        ELSE Take(DescriptionOf(tool.description), DescChars))
    \o (IF tool.schema # "null" /\ tool.props > 0
          THEN <<" ", "(">> \o JoinProps(Min({tool.props, PropNames})) \o <<")">>
          ELSE << >>)

\* parts.join("\n")
RECURSIVE JoinLines(_)
JoinLines(parts) ==
  IF parts = << >> THEN << >>
  ELSE IF Len(parts) = 1 THEN parts[1]
  ELSE parts[1] \o <<"\n">> \o JoinLines(Tail(parts))

\* the line appended for the tools left out (route.ts 84)
MoreTools(n) ==
  <<"\n", ".", ".", ".", ToString(n), " ",
    "m", "o", "r", "e", " ", "t", "o", "o", "l", "s">>

\* Variant of DescriptionLines: every tool is rendered.
DescriptionLinesAll(tools, maxTools) == [i \in 1..Len(tools) |-> ToolLine(tools[i])]

\* const parts, one line per tool of the slice (route.ts 58-80)
DescriptionLines(tools, maxTools) ==
  LET slice == Take(tools, maxTools) IN [i \in 1..Len(slice) |-> ToolLine(slice[i])]

\* let result before the return (route.ts 82-85)
DescriptionText(tools, maxTools) ==
  JoinLines(DescriptionLines(tools, maxTools))
    \o (IF Len(tools) > maxTools THEN MoreTools(Len(tools) - maxTools) ELSE << >>)

buildToolsDescription(tools, maxTools, maxChars) ==
  LET result == DescriptionText(tools, maxTools) IN
    IF Len(result) > maxChars THEN Take(result, maxChars) \o Ellipsis ELSE result

\* the arguments POST passes (route.ts 189)
PromptMaxTools == 20

PromptMaxChars == 2000

---------------------------------------------------------------------------
(* The planning message batch (route.ts 208-254).                          *)

HistoryWindow == 10

Roles == {"user", "assistant"}

\* conversationHistory of a body that carries none
NoHistory == [present |-> FALSE, entries |-> << >>]

\* a history as the UI keeps it (part_002 9-13, 47-51): entry i has the
\* role roles[i], its own content and a timestamp
HistoryOf(roles) ==
  [present |-> TRUE,
   entries |-> [i \in 1..Len(roles) |->
                  [role |-> roles[i], content |-> [turn |-> i], timestamp |-> i]]]

\* Variant of SliceLast: slice(0, k), the oldest entries.
SliceFirst(seq, k) == SubSeq(seq, 1, Min({k, Len(seq)}))

\* slice(-k) for k >= 1
SliceLast(seq, k) == SubSeq(seq, Max({1, Len(seq) - k + 1}), Len(seq))

\* conversationHistory.slice(-10), or nothing for an absent or empty history
RecentHistory(history) ==
  IF history.present /\ Len(history.entries) > 0
    THEN SliceLast(history.entries, HistoryWindow)
    ELSE << >>

\* the message carrying the current prompt (route.ts 224-254): the tools
\* description and the page id it quotes
PromptMessage(tools, ctx) ==
  [role |-> "user",
   content |-> [prompt |-> "prompt",
                toolsDescription |-> buildToolsDescription(tools, PromptMaxTools, PromptMaxChars),
                pageId |-> IF ctx = "id" THEN "id" ELSE "unknown"]]

\* const messages once the batch is built
PlanningMessages(history, tools, ctx) ==
  LET recentHistory == RecentHistory(history) IN
    [i \in 1..Len(recentHistory) |->
       [role |-> recentHistory[i].role, content |-> recentHistory[i].content]]
    \o << PromptMessage(tools, ctx) >>

MaxHistory == 12

\* the histories a request may carry: none, an empty one, and every
\* sequence of roles up to MaxHistory entries
Histories ==
  {NoHistory} \cup {HistoryOf(r) : r \in UNION {[1..n -> Roles] : n \in 0..MaxHistory}}

\* the histories drawn while a whole request is followed
RequestHistories ==
  {NoHistory,
   HistoryOf([i \in 1..MaxHistory |-> IF i % 2 = 1 THEN "user" ELSE "assistant"])}

\* buildToolsDescription applied to its arguments
Describe ==
  /\ dStage = "args"
  /\ dOut' = buildToolsDescription(dTools, dMaxTools, dMaxChars)
  /\ dStage' = "returned"
  /\ UNCHANGED <<dTools, dMaxTools, dMaxChars>>

\* the message batch built from a request body (route.ts 208-254)
BuildMessages ==
  /\ mStage = "body"
  /\ mMessages' = PlanningMessages(mHistory, << >>, mContext)
  /\ mStage' = "built"
  /\ UNCHANGED <<mHistory, mContext>>

---------------------------------------------------------------------------
(* POST, one action per stretch of code between two awaits.                *)

\* Variant of Throw: the error passes the catch block by.
ThrowEscapes(err) == thrown' = err /\ pc' = "finally"

\* a throw inside the try block of POST: control goes to catch (route.ts 405)
Throw(err) == thrown' = err /\ pc' = "catch"

\* 1. client = await createSitecoreMCPClient()  (route.ts 163-167,
\* part_001 13-99: connect, then listTools; a failure of either closes the
\* transport and throws, and client stays null)
CreateClient ==
  /\ pc = "connect"
  /\ \E outcome \in {"connectFails", "listFails", "ok"} :
       IF outcome = "ok"
         THEN /\ \E cat \in Catalogs : toolsList' = cat
              /\ client' = "open"
              /\ transport' = "connected"
              /\ logs' = Push(logs, << Line("Connecting to Sitecore MCP server...", 0, ""),
                                      Line("MCP connection established successfully", 0, "") >>)
              /\ pc' = "listTools"
              /\ UNCHANGED thrown
         ELSE /\ transport' = "closed"
              /\ logs' = Push(logs, << Line("Connecting to Sitecore MCP server...", 0, "") >>)
              /\ Throw(Line("MCP connection failed", 0, outcome))
              /\ UNCHANGED <<client, toolsList>>
  /\ UNCHANGED <<conversationHistory, messages, closeCalls, toolsResponse, toolsWithSchemas, pageContext, console, lastErr,
                 phase, attempt, sleeps, modelCalls, planMessage, finalResponse, actionPlan, index,
                 results, calls, outcomes, inflight, responses>>

\* 2. toolsResponse = await client.listTools()  (route.ts 170-176; the
\* client answers with the list it fetched when connecting, part_001 63-65)
ListTools ==
  /\ pc = "listTools"
  /\ toolsResponse' = toolsList
  /\ toolsWithSchemas' = << >>
  /\ logs' = Push(logs, << Line("Fetching available tools from MCP server...", 0, ""),
                          Line("Available tools", Len(toolsList), ""),
                          Line("Fetching tool schemas...", 0, "") >>)
  /\ pc' = "schemas"
  /\ UNCHANGED <<conversationHistory, messages, client, transport, closeCalls, toolsList, pageContext, console, lastErr, phase,
                 attempt, sleeps, modelCalls, planMessage, finalResponse, actionPlan, index, results,
                 calls, outcomes, inflight, thrown, responses>>

\* Variant of WithSchema: a tool whose schema could not be fetched loses its
\* name.
WithSchemaUnnamed(name, ok) ==
  [name |-> IF ok THEN name ELSE "undefined", description |-> 0,
   schema |-> IF ok THEN "schema" ELSE "null", props |-> IF ok THEN 1 ELSE 0]

\* { ...tool, schema } and { ...tool, schema: null } (route.ts 181, 184); a
\* listed tool has a name and no description, a schema has one property
WithSchema(name, ok) ==
  [name |-> name, description |-> 0,
   schema |-> IF ok THEN "schema" ELSE "null", props |-> IF ok THEN 1 ELSE 0]

\* Variant of DiscoveryDone: the loop is left after its first turn.
DiscoveryDoneEarly(catalog, tools) == Len(catalog) >= Min({1, Len(tools)})

\* the for-of loop over toolsResponse.tools has run out (route.ts 178)
DiscoveryDone(catalog, tools) == Len(catalog) = Len(tools)

SchemaFailures == Cardinality({i \in 1..Len(toolsWithSchemas) : toolsWithSchemas[i].schema = "null"})

\* 3. one turn of the schema loop (route.ts 178-186): getToolSchema returns
\* the schema or throws, and the tool is kept either way
GetToolSchema ==
  /\ pc = "schemas"
  /\ ~DiscoveryDone(toolsWithSchemas, toolsResponse)
  /\ LET name == toolsResponse[Len(toolsWithSchemas) + 1] IN
       \E ok \in BOOLEAN :
         /\ ~ok => SchemaFailures < MaxSchemaFailures
         /\ toolsWithSchemas' = Append(toolsWithSchemas, WithSchema(name, ok))
  /\ UNCHANGED <<conversationHistory, messages, pc, client, transport, closeCalls, toolsList, toolsResponse,
                 pageContext, logs, console, lastErr, phase, attempt, sleeps, modelCalls,
                 planMessage, finalResponse, actionPlan, index, results, calls, outcomes, inflight, thrown,
                 responses>>

\* 4-7. the tools description, await req.json(), the log lines about the
\* request, the planning messages, and the start of the plan request
\* (route.ts 189-261)
ReadBody ==
  /\ pc = "schemas"
  /\ DiscoveryDone(toolsWithSchemas, toolsResponse)
  /\ \E body \in {"malformed", "absent", "noId", "id"}, history \in RequestHistories :
       IF body = "malformed"
         THEN /\ history = NoHistory
              /\ Throw(Line("Unexpected token in JSON", 0, ""))
              /\ UNCHANGED <<pageContext, conversationHistory, messages, logs, phase,
                             attempt, lastErr>>
         ELSE /\ pageContext' = body
              /\ conversationHistory' = history
              /\ messages' = PlanningMessages(history, toolsWithSchemas, body)
              /\ logs' = Push(logs,
                   << Line("Prompt received", 0, "") >>
                   \o (IF body = "absent" THEN << >>
                       ELSE << Line("Page context received with ID", 0,
                                    IF body = "id" THEN "id" ELSE "unknown") >>)
                   \o << Line("Conversation history length", Len(history.entries), "") >>
                   \o (IF RecentHistory(history) = << >> THEN << >>
                       ELSE << Line("Added previous messages to context",
                                    Len(RecentHistory(history)), "") >>)
                   \o << Line("Querying Claude Sonnet 4.5 for execution plan with conversation context...", 0, "") >>)
              /\ phase' = "plan"
              /\ attempt' = 0
              /\ lastErr' = NullErr
              /\ pc' = "call"
              /\ UNCHANGED thrown
  /\ UNCHANGED <<client, transport, closeCalls, toolsList, toolsResponse,
                 toolsWithSchemas, console, sleeps, modelCalls, planMessage,
                 finalResponse, actionPlan, index, results, calls, outcomes, inflight, responses>>

\* Variant of Rethrows: the bound is compared with >= one attempt later.
RethrowsLate(err, att) == ~IsRateLimit(err) \/ att > maxRetries + 1

\* if (!isRateLimit || attempt > maxRetries) throw err, with attempt already
\* incremented (route.ts 36-39)
Rethrows(err, att) == ~IsRateLimit(err) \/ att > maxRetries

\* one turn of the while loop of sendAnthropicMessages up to its await
\* (route.ts 23-44): anthropic.messages.create returns a message, which the
\* gateway returns to POST, or throws
ModelCall ==
  /\ pc = "call"
  /\ modelCalls' = modelCalls + 1
  /\ \/ /\ phase = "plan"
        /\ \E m \in PlanMessages : planMessage' = m
        /\ pc' = "planText"
        /\ UNCHANGED <<finalResponse, attempt, console, lastErr, thrown>>
     \/ /\ phase = "summary"
        /\ \E t \in {"text", "tool_use"} : finalResponse' = [type |-> t]
        /\ pc' = "respond"
        /\ UNCHANGED <<planMessage, attempt, console, lastErr, thrown>>
     \/ /\ \E err \in ModelErrors :
             /\ lastErr' = err
             /\ attempt' = attempt + 1
             /\ IF Rethrows(err, attempt + 1)
                  THEN /\ Throw(Line("Anthropic error", err.status, err.type))
                       /\ UNCHANGED console
                  ELSE /\ console' = Append(console,
                              Line("Rate limit detected from Anthropic, retrying",
                                   attempt + 1, ToString(Delay(attempt + 1))))
                       /\ pc' = "sleep"
                       /\ UNCHANGED thrown
        /\ UNCHANGED <<planMessage, finalResponse>>
  /\ UNCHANGED <<conversationHistory, messages, client, transport, closeCalls, toolsList, toolsResponse,
                 toolsWithSchemas, pageContext, logs, phase, sleeps, actionPlan,
                 index, results, calls, outcomes, inflight, responses>>

\* await sleep(delay) (route.ts 45), then the loop condition (route.ts 23)
Sleep ==
  /\ pc = "sleep"
  /\ sleeps' = Append(sleeps, Delay(attempt))
  /\ IF attempt <= maxRetries THEN pc' = "call" /\ UNCHANGED thrown
     ELSE Throw(Line("Anthropic error", lastErr.status, lastErr.type))
  /\ UNCHANGED <<conversationHistory, messages, client, transport, closeCalls, toolsList, toolsResponse,
                 toolsWithSchemas, pageContext, logs, console, lastErr, phase, attempt,
                 modelCalls, planMessage, finalResponse, actionPlan, index, results,
                 calls, outcomes, inflight, responses>>

\* the plan text taken from the message (route.ts 268-284)
PlanText ==
  /\ pc = "planText"
  /\ IF planMessage.type = "text"
       THEN /\ logs' = Push(logs,
                 << Line("Claude response received, length", Len(planMessage.text), "") >>
                 \o (IF planMessage.stop_reason = "max_tokens"
                       THEN << Line("Warning: Claude response may be truncated due to token limit", 0, "") >>
                       ELSE << >>))
            /\ pc' = "parse"
            /\ UNCHANGED thrown
       ELSE /\ Throw(Line("Unsupported content type", 0, planMessage.type))
            /\ UNCHANGED logs
  /\ UNCHANGED <<conversationHistory, messages, client, transport, closeCalls, toolsList, toolsResponse,
                 toolsWithSchemas, pageContext, console, lastErr, phase, attempt, sleeps,
                 modelCalls, planMessage, finalResponse, actionPlan, index, results,
                 calls, outcomes, inflight, responses>>

\* Variant of LengthThrows: reading the length of the parsed value never
\* throws.
LengthThrowsNever(kind) == FALSE

\* actionPlan.length (route.ts 290) throws a TypeError on null, inside the
\* try block of the parse; on any other value it yields a number or undefined
LengthThrows(kind) == kind = "null"

\* 8. the plan parsed, or the fallback plan (route.ts 287-318)
ParsePlan ==
  /\ pc = "parse"
  /\ LET parsed == parseClaudeResponse(planMessage.text) IN
       IF ~parsed.threw /\ ~LengthThrows(parsed.kind)
         THEN /\ actionPlan' =
                   [kind |-> parsed.kind,
                    items |-> IF parsed.kind = "array"
                                THEN [i \in 1..Len(parsed.items) |-> ActionOf(parsed.items[i])]
                                ELSE << >>]
              /\ logs' = Push(logs,
                   << IF parsed.kind = "array"
                        THEN Line("Action plan parsed successfully with steps", Len(parsed.items), "")
                        ELSE Line("Action plan parsed successfully with steps", 0, "undefined") >>)
         ELSE /\ actionPlan' = FallbackPlan(pageContext)
              /\ logs' = Push(logs, << Line("Error parsing Claude plan", 0, ""),
                                      Line("Creating fallback plan...", 0, "") >>)
  /\ results' = << >>
  /\ index' = 1
  /\ pc' = "loop"
  /\ UNCHANGED <<conversationHistory, messages, client, transport, closeCalls, toolsList, toolsResponse,
                 toolsWithSchemas, pageContext, console, lastErr, phase, attempt, sleeps,
                 modelCalls, planMessage, finalResponse, calls, outcomes, inflight, thrown,
                 responses>>

\* Variant of ActionAt: the plan is walked from its last action to its first.
ActionAtReversed(plan, i) == plan.items[Len(plan.items) - i + 1]

\* the action the for-of loop hands to its index-th turn
ActionAt(plan, i) == plan.items[i]

\* Variant of ToolExists: the check passes as soon as the server lists a tool.
ToolExistsAny(tools, name) == tools # << >>

\* Variant of ToolExists: the check is skipped.
ToolExistsAlways(tools, name) == TRUE

\* toolsResponse.tools.some((t) => t.name === action.tool)
ToolExists(tools, name) == \E i \in 1..Len(tools) : tools[i] = name

\* 9. the head of the plan loop and one turn of it up to its await
\* (route.ts 320-342); after the last turn, the start of the summary request
\* (route.ts 366-382)
LoopStep ==
  /\ pc = "loop"
  /\ IF actionPlan.kind # "array"
       THEN \* actionPlan.entries is not a function
            /\ Throw(Line("actionPlan.entries is not a function", 0, ""))
            /\ UNCHANGED <<logs, calls, inflight, phase, attempt, lastErr>>
     ELSE IF index > Len(actionPlan.items)
       THEN /\ logs' = Push(logs, << Line("Generating final response with conversation context...", 0, "") >>)
            /\ phase' = "summary"
            /\ attempt' = 0
            /\ lastErr' = NullErr
            /\ pc' = "call"
            /\ UNCHANGED <<calls, inflight, thrown>>
     ELSE LET action == ActionAt(actionPlan, index)
              head == << Line("Executing step", index, action.tool),
                         Line("Parameters", 0, ""),
                         Line("Reasoning", 0, "") >>
          IN IF ~ToolExists(toolsResponse, action.tool)
               THEN /\ logs' = Push(logs, head \o << Line("Tool not available", 0, action.tool) >>)
                    /\ Throw(Line("Tool not available", 0, action.tool))
                    /\ UNCHANGED <<calls, inflight, phase, attempt, lastErr>>
               ELSE /\ logs' = Push(logs, head)
                    /\ calls' = Append(calls, [name |-> action.tool, arguments |-> action.parameters])
                    /\ inflight' = inflight + 1
                    /\ pc' = "awaitTool"
                    /\ UNCHANGED <<thrown, phase, attempt, lastErr>>
  /\ UNCHANGED <<conversationHistory, messages, client, transport, closeCalls, toolsList, toolsResponse,
                 toolsWithSchemas, pageContext, console, sleeps, modelCalls,
                 planMessage, finalResponse, actionPlan, index, results, outcomes, responses>>

\* Variant of NextIndex: the loop stays on the action it has just run.
NextIndexSame(i) == i

\* the for-of loop moves to the next entry of the plan (route.ts 320)
NextIndex(i) == i + 1

\* Variant of ResultIsError: the isError flag of a result is never looked at.
ResultIsErrorNever(result) == FALSE

\* if (result.isError)
ResultIsError(result) == result.isError

\* the rest of the turn once callTool has settled (route.ts 339-362): a
\* result is pushed and logged as completed before isError is looked at; a
\* throw of callTool, or of the isError check, lands in the catch of the turn
ToolReturn ==
  /\ pc = "awaitTool"
  /\ inflight' = inflight - 1
  /\ LET action == ActionAt(actionPlan, index) IN
       \E outcome \in {"ok", "isError", "throws"} :
         /\ outcomes' = Append(outcomes, outcome)
         /\ IF outcome = "throws"
              THEN /\ logs' = Push(logs, << Line("Error executing tool", 0, action.tool) >>)
                   /\ Throw(Line("Error executing tool", 0, action.tool))
                   /\ UNCHANGED <<results, index>>
              ELSE LET result == Result(outcome = "isError", index) IN
                /\ results' = Append(results, result)
                /\ IF ResultIsError(result)
                     THEN /\ logs' = Push(logs,
                               << Line("Step completed successfully", index, ""),
                                  Line("Step returned error", index, ""),
                                  Line("Error executing tool: Error in step", index, action.tool) >>)
                          /\ Throw(Line("Error executing tool: Error in step", index, action.tool))
                          /\ UNCHANGED index
                     ELSE /\ logs' = Push(logs, << Line("Step completed successfully", index, "") >>)
                          /\ index' = NextIndex(index)
                          /\ pc' = "loop"
                          /\ UNCHANGED thrown
  /\ UNCHANGED <<conversationHistory, messages, client, transport, closeCalls, toolsList, toolsResponse,
                 toolsWithSchemas, pageContext, console, lastErr, phase, attempt, sleeps,
                 modelCalls, planMessage, finalResponse, actionPlan, calls, responses>>

\* 10. the summary text and the success response (route.ts 388-404)
Respond ==
  /\ pc = "respond"
  /\ LET finalText == IF finalResponse.type = "text" THEN "summary"
                      ELSE "Execution completed successfully."
         out == Push(logs, << Line("Execution completed successfully", 0, "") >>)
     IN /\ logs' = out
        /\ responses' = Append(responses,
             [success |-> TRUE, status |-> 200, logs |-> out, actionPlan |-> actionPlan,
              results |-> results, response |-> finalText])
  /\ pc' = "finally"
  /\ UNCHANGED <<conversationHistory, messages, client, transport, closeCalls, toolsList, toolsResponse,
                 toolsWithSchemas, pageContext, console, lastErr, phase, attempt, sleeps,
                 modelCalls, planMessage, finalResponse, actionPlan, index, results,
                 calls, outcomes, inflight, thrown>>

\* Variant of Catch: an error of the summary request is answered with the
\* success response and the generic completion message.
CatchSummaryFallback ==
  /\ pc = "catch"
  /\ responses' = Append(responses,
       IF phase = "summary"
         THEN [success |-> TRUE, status |-> 200, logs |-> logs, actionPlan |-> actionPlan,
               results |-> results, response |-> "Execution completed successfully."]
         ELSE [success |-> FALSE, status |-> 500, error |-> "AI agent error", logs |-> logs,
               details |-> thrown])
  /\ pc' = "finally"
  /\ UNCHANGED <<conversationHistory, messages, client, transport, closeCalls, toolsList, toolsResponse,
                 toolsWithSchemas, pageContext, logs, console, lastErr, phase, attempt, sleeps,
                 modelCalls, planMessage, finalResponse, actionPlan, index, results,
                 calls, outcomes, inflight, thrown>>

\* the catch block: the failure response (route.ts 405-420)
Catch ==
  /\ pc = "catch"
  /\ responses' = Append(responses,
       [success |-> FALSE, status |-> 500, error |-> "AI agent error", logs |-> logs,
        details |-> thrown])
  /\ pc' = "finally"
  /\ UNCHANGED <<conversationHistory, messages, client, transport, closeCalls, toolsList, toolsResponse,
                 toolsWithSchemas, pageContext, logs, console, lastErr, phase, attempt, sleeps,
                 modelCalls, planMessage, finalResponse, actionPlan, index, results,
                 calls, outcomes, inflight, thrown>>

\* Variant of HasClient: the connection is released on the success path only.
HasClientOnSuccess(c) == c # "null" /\ thrown = NoError

\* if (client)
HasClient(c) == c # "null"

\* the finally block (route.ts 421-432): close() returns or throws, and a
\* throw is swallowed
Finally ==
  /\ pc = "finally"
  /\ IF HasClient(client)
       THEN /\ closeCalls' = closeCalls + 1
            /\ \E closed \in BOOLEAN :
                 transport' = IF closed THEN "closed" ELSE "closeFailed"
       ELSE UNCHANGED <<closeCalls, transport>>
  /\ pc' = "done"
  /\ UNCHANGED <<conversationHistory, messages, client, toolsList, toolsResponse, toolsWithSchemas, pageContext,
                 logs, console, lastErr, phase, attempt, sleeps, modelCalls, planMessage,
                 finalResponse, actionPlan, index, results, calls, outcomes, inflight, thrown,
                 responses>>

---------------------------------------------------------------------------
(* Specifications.                                                         *)

ParserOff ==
  /\ pPlan = << >> /\ pPretty = FALSE /\ pText = << >> /\ pFenced = FALSE
  /\ pCut = FALSE /\ pStage = "off" /\ pOut = NoOut

---------------------------------------------------------------------------
(* The IAgent component (part_002 15-68).  A handler sees the state of the *)
(* render it was created in: handleExecute keeps the prompt, the history   *)
(* and the logs of that render across its awaits.                          *)

MaxSubmits == 3

Prompts == {"", "list items"}

NoFlight == [active |-> FALSE, prompt |-> "", history |-> << >>, logs |-> << >>]

\* { role, content, timestamp: new Date() }
Message(role, content, time) == [role |-> role, content |-> content, timestamp |-> time]

\* the set of the entries of a history
Entries(history) == {history[i] : i \in 1..Len(history)}

\* the textarea, enabled while no request is loading (part_002 108-116)
TypePrompt ==
  /\ uStage = "mounted" /\ ~uLoading
  /\ \E text \in Prompts : uPrompt' = text
  /\ UNCHANGED <<uResponse, uLoading, uLogs, uHistory, uFlight, uSent, uClock, uDropped, uStage>>

\* handleExecute up to its first await (part_002 22-38); the Execute button
\* is disabled while a request is loading (part_002 119-126)
HandleExecute ==
  /\ uStage = "mounted" /\ ~uLoading /\ uSent < MaxSubmits
  /\ uLoading' = TRUE
  /\ uLogs' = << >>
  /\ uResponse' = "null"
  /\ uFlight' = [active |-> TRUE, prompt |-> uPrompt, history |-> uHistory, logs |-> uLogs]
  /\ uSent' = uSent + 1
  /\ uDropped' = {}
  /\ UNCHANGED <<uPrompt, uHistory, uClock, uStage>>

\* the rest of handleExecute once fetch has settled (part_002 40-61): the
\* answer says success, or says failure, or the fetch or res.json() threw
FetchSettles ==
  /\ uStage = "mounted" /\ uFlight.active
  /\ \E answer \in {"success", "failure", "throws"} :
       /\ IF answer = "success"
            THEN /\ uResponse' = "data"
                 /\ uLogs' = <<"data.logs">>
                 /\ uHistory' = uFlight.history
                      \o << Message("user", uFlight.prompt, uClock),
                            Message("assistant", "data.response", uClock) >>
          ELSE IF answer = "failure"
            THEN /\ uLogs' = <<"data.logs", "Error: data.error">>
                 /\ UNCHANGED <<uResponse, uHistory>>
          ELSE /\ uLogs' = uFlight.logs \o <<"Conection Error">>
               /\ UNCHANGED <<uResponse, uHistory>>
  /\ uClock' = uClock + 1
  /\ uLoading' = FALSE
  /\ uPrompt' = ""
  /\ uFlight' = NoFlight
  /\ UNCHANGED <<uSent, uDropped, uStage>>

\* clearHistory (part_002 64-68); its button is rendered while the history
\* is not empty (part_002 80-90), whether or not a request is loading
ClearHistory ==
  /\ uStage = "mounted" /\ Len(uHistory) > 0
  /\ uHistory' = << >>
  /\ uResponse' = "null"
  /\ uLogs' = << >>
  /\ uDropped' = IF uFlight.active THEN uDropped \cup Entries(uHistory) ELSE uDropped
  /\ UNCHANGED <<uPrompt, uLoading, uFlight, uSent, uClock, uStage>>

\* the state of the useState calls (part_002 16-20)
ComponentMounted(stage) ==
  /\ uStage = stage
  /\ uPrompt = "" /\ uResponse = "null" /\ uLoading = FALSE /\ uLogs = << >>
  /\ uHistory = << >> /\ uFlight = NoFlight /\ uSent = 0 /\ uClock = 1 /\ uDropped = {}

ComponentOff == ComponentMounted("off")

DescriptionOff ==
  /\ dTools = << >> /\ dMaxTools = 0 /\ dMaxChars = 0 /\ dStage = "off" /\ dOut = << >>

MessagesOff ==
  /\ mHistory = NoHistory /\ mContext = "absent" /\ mStage = "off" /\ mMessages = << >>

\* the locals of POST and of the gateway before anything ran, POST standing
\* at pc = at with the gateway serving the request named by ph
RequestLocals(at, ph) ==
  /\ pc = at /\ lastErr = NullErr /\ client = "null" /\ transport = "idle" /\ closeCalls = 0
  /\ toolsList = << >> /\ toolsResponse = << >> /\ toolsWithSchemas = << >>
  /\ pageContext = "absent" /\ logs = << >> /\ console = << >> /\ phase = ph
  /\ attempt = 0 /\ sleeps = << >> /\ modelCalls = 0
  /\ planMessage = [type |-> "none", text |-> << >>, stop_reason |-> "none"]
  /\ finalResponse = [type |-> "none"]
  /\ actionPlan = [kind |-> "none", items |-> << >>]
  /\ index = 0 /\ results = << >> /\ calls = << >> /\ inflight = 0 /\ outcomes = << >>
  /\ thrown = NoError /\ responses = << >>
  /\ conversationHistory = NoHistory /\ messages = << >>

RequestStart(at) == RequestLocals(at, "none")

\* one request, from the entry of POST
Init ==
  ParserOff /\ DescriptionOff /\ MessagesOff /\ ComponentOff /\ RequestStart("connect")

Next ==
  \/ (CreateClient /\ UNCHANGED fvars)
  \/ (ListTools /\ UNCHANGED fvars)
  \/ (GetToolSchema /\ UNCHANGED fvars)
  \/ (ReadBody /\ UNCHANGED fvars)
  \/ (ModelCall /\ UNCHANGED fvars)
  \/ (Sleep /\ UNCHANGED fvars)
  \/ (PlanText /\ UNCHANGED fvars)
  \/ (ParsePlan /\ UNCHANGED fvars)
  \/ (LoopStep /\ UNCHANGED fvars)
  \/ (ToolReturn /\ UNCHANGED fvars)
  \/ (Respond /\ UNCHANGED fvars)
  \/ (Catch /\ UNCHANGED fvars)
  \/ (Finally /\ UNCHANGED fvars)

Spec == Init /\ [][Next]_vars

\* the parser applied to every rendering of every plan
ParseInit ==
  /\ pPlan \in Plans
  /\ pPretty \in BOOLEAN
  /\ pText = RenderPlan(pPlan, pPretty)
  /\ pFenced = FALSE /\ pCut = FALSE /\ pStage = "text" /\ pOut = NoOut
  /\ DescriptionOff /\ MessagesOff /\ ComponentOff /\ RequestStart("off")

ParseNext ==
  \/ (WrapInFence /\ UNCHANGED <<rvars, dvars, mvars, uvars>>)
  \/ (CutOff /\ UNCHANGED <<rvars, dvars, mvars, uvars>>)
  \/ (Parse /\ UNCHANGED <<rvars, dvars, mvars, uvars>>)

ParseSpec == ParseInit /\ [][ParseNext]_vars

\* one call of sendAnthropicMessages, for the plan or for the summary, from
\* its entry to its return or throw
GatewayInit ==
  /\ ParserOff /\ DescriptionOff /\ MessagesOff /\ ComponentOff
  /\ \E ph \in {"plan", "summary"} : RequestLocals("call", ph)

GatewayNext ==
  \/ (ModelCall /\ UNCHANGED fvars)
  \/ (Sleep /\ UNCHANGED fvars)

GatewaySpec == GatewayInit /\ [][GatewayNext]_vars

MaxToolCount == 3

\* the tools buildToolsDescription is given: without or with a description
\* longer than DescChars, with a null schema or a schema of no, one or six
\* properties
ToolShapes ==
  { [name |-> "a", description |-> d, schema |-> sc[1], props |-> sc[2]] :
      d \in {0, DescChars + 1},
      sc \in {<<"null", 0>>, <<"schema", 0>>, <<"schema", 1>>, <<"schema", PropNames + 1>>} }

\* the values of maxChars tried
DescCaps == {0, 20, 100, PromptMaxChars}

\* buildToolsDescription applied to every list of up to MaxToolCount tools
DescInit ==
  /\ dTools \in UNION {[1..n -> ToolShapes] : n \in 0..MaxToolCount}
  /\ dMaxTools \in 0..(MaxToolCount - 1)
  /\ dMaxChars \in DescCaps
  /\ dStage = "args" /\ dOut = << >>
  /\ ParserOff /\ MessagesOff /\ ComponentOff /\ RequestStart("off")

DescNext == Describe /\ UNCHANGED <<pvars, mvars, uvars, rvars>>

DescSpec == DescInit /\ [][DescNext]_vars

\* the message batch built from every history of up to MaxHistory entries
MessagesInit ==
  /\ mHistory \in Histories
  /\ mContext \in {"absent", "id"}
  /\ mStage = "body" /\ mMessages = << >>
  /\ ParserOff /\ DescriptionOff /\ ComponentOff /\ RequestStart("off")

MessagesNext == BuildMessages /\ UNCHANGED <<pvars, dvars, uvars, rvars>>

MessagesSpec == MessagesInit /\ [][MessagesNext]_vars

\* one session of the IAgent component, from its first render
ComponentInit ==
  /\ ComponentMounted("mounted")
  /\ ParserOff /\ DescriptionOff /\ MessagesOff /\ RequestStart("off")

ComponentNext ==
  \/ (TypePrompt /\ UNCHANGED <<pvars, dvars, mvars, rvars>>)
  \/ (HandleExecute /\ UNCHANGED <<pvars, dvars, mvars, rvars>>)
  \/ (FetchSettles /\ UNCHANGED <<pvars, dvars, mvars, rvars>>)
  \/ (ClearHistory /\ UNCHANGED <<pvars, dvars, mvars, rvars>>)

ComponentSpec == ComponentInit /\ [][ComponentNext]_vars

---------------------------------------------------------------------------
(* Properties of POST, checked under Spec.                                 *)

Returned == pc = "done"
Outcome == responses[1]
InCatalog(name) == \E i \in 1..Len(toolsResponse) : toolsResponse[i] = name
Steps == actionPlan.items
AllOk == \A i \in 1..Len(outcomes) : outcomes[i] = "ok"

\* C1: on every exit path of a request whose MCP connection was established,
\* close() is called exactly once, in the finally block after the outcome was
\* produced; it is never called twice, and never without a connection.
C1_CloseExactlyOnce ==
  /\ closeCalls <= 1
  /\ closeCalls = 1 => Returned /\ Len(responses) = 1 /\ client = "open"
  /\ Returned /\ client = "open" => closeCalls = 1 /\ transport # "connected"
  /\ Returned /\ client = "null" => closeCalls = 0 /\ transport = "closed"

\* a request that failed in a tool invocation and has closed its connection
C1_Witness ==
  /\ Returned /\ closeCalls = 1 /\ ~Outcome.success
  /\ thrown.msg = "Error executing tool"

PlanParsed ==
  \E i \in 1..Len(logs) : logs[i].msg = "Action plan parsed successfully with steps"

\* C2 as claimed: when the plan was parsed, every step ran without error and
\* the summary request failed, the request ends with success:true and the
\* generic completion message.
C2_SummaryFailureIsSuccess ==
  Returned /\ PlanParsed /\ phase = "summary" /\ thrown.msg = "Anthropic error"
    => Outcome.success /\ Outcome.response = "Execution completed successfully."

\* C2 amended: a failure of the summary request ends the request with the
\* failure response (success:false, status 500, details the gateway error);
\* the generic completion message is the response text exactly when the
\* summary message's first content block is not text.
C2_SummaryFailureIsFailure ==
  /\ Returned /\ phase = "summary" /\ thrown # NoError
       => /\ ~Outcome.success /\ Outcome.status = 500
          /\ Outcome.details = thrown /\ thrown.msg = "Anthropic error"
          /\ AllOk /\ Len(results) = Len(Steps)
  /\ Returned /\ Outcome.success
       => Outcome.response = IF finalResponse.type = "text" THEN "summary"
                             ELSE "Execution completed successfully."

\* two steps ran without error and the summary request then failed
C2_Witness ==
  /\ Returned /\ PlanParsed /\ phase = "summary" /\ thrown.msg = "Anthropic error"
  /\ Len(results) = 2 /\ ~Outcome.success

\* C3 as claimed: when step k returns isError:true, results holds exactly the
\* k-1 results of the steps before it.
C3_ErrorResultNotCollected ==
  \A k \in 1..Len(outcomes) : outcomes[k] = "isError" => Len(results) = k - 1

\* C4: once an invocation has reported isError or thrown, no callTool is
\* issued any more, and the audit log names the failing step by its 1-based
\* number: its "Executing step k" line is the last of its kind, and an
\* isError result adds the line "Step k returned error".
C4_FailFast ==
  \A k \in 1..Len(outcomes) :
    outcomes[k] # "ok" =>
      /\ Len(outcomes) = k /\ Len(calls) = k /\ inflight = 0
      /\ pc \in {"catch", "finally", "done"}
      /\ \E i \in 1..Len(logs) : logs[i].msg = "Executing step" /\ logs[i].step = k
      /\ \A i \in 1..Len(logs) : logs[i].msg = "Executing step" => logs[i].step <= k
      /\ outcomes[k] = "isError"
           => \E i \in 1..Len(logs) : logs[i] = Line("Step returned error", k, "")
      /\ logs[Len(logs)].arg = Steps[k].tool
      /\ Returned => Outcome.logs = logs

\* the second invocation of a three-step plan threw and the request returned
C4_Witness ==
  /\ Returned /\ Len(Steps) = 3 /\ Len(outcomes) = 2 /\ outcomes[2] = "throws"

\* the first action of the plan whose tool the server did not list, 0 if none
FirstMissing ==
  LET missing == {k \in 1..Len(Steps) : ~InCatalog(Steps[k].tool)} IN
    IF actionPlan.kind # "array" \/ missing = {} THEN 0 ELSE Min(missing)

\* C5: if the k-th action names a tool that listTools did not return, callTool
\* is never issued for it or a later action; when the k-1 actions before it
\* have run, execution fails with the error "Tool not available" naming that
\* tool, with exactly k-1 invocations and k-1 results.
C5_UnknownToolStops ==
  LET k == FirstMissing IN
    k # 0 =>
      /\ Len(calls) < k
      /\ \A i \in 1..Len(calls) : calls[i].name = Steps[i].tool
      /\ (pc \in {"catch", "finally", "done"} /\ Len(outcomes) = k - 1 /\ AllOk)
           => /\ thrown = Line("Tool not available", 0, Steps[k].tool)
              /\ Len(calls) = k - 1 /\ Len(results) = k - 1
              /\ logs[Len(logs)] = Line("Tool not available", 0, Steps[k].tool)
      /\ (Returned /\ Len(outcomes) = k - 1 /\ AllOk)
           => ~Outcome.success /\ Outcome.details.arg = Steps[k].tool

\* the second action names an unknown tool: one invocation, then the failure
C5_Witness ==
  /\ Returned /\ FirstMissing = 2 /\ Len(calls) = 1 /\ Len(Steps) = 3
  /\ thrown.msg = "Tool not available"

\* C6: the i-th callTool carries the tool and parameters of the i-th action
\* of the plan, an invocation is issued only when every earlier one has
\* settled, and at most one is in flight.
C6_SequentialInOrder ==
  /\ inflight \in {0, 1}
  /\ Len(calls) = Len(outcomes) + inflight
  /\ Len(calls) <= Len(Steps)
  /\ \A i \in 1..Len(calls) :
       calls[i] = [name |-> Steps[i].tool, arguments |-> Steps[i].parameters]

\* the third invocation of a plan is in flight, after two that differ
C6_Witness ==
  /\ Len(calls) = 3 /\ inflight = 1 /\ Len(outcomes) = 2
  /\ calls[1] # calls[2]

\* C7: a request answers success:true only if every action of the plan names
\* a listed tool, was invoked and returned a result without isError; a plan
\* with an unknown tool, an isError result or a thrown invocation is answered
\* success:false with the log accumulated so far.
C7_SuccessMeansAllStepsOk ==
  Returned =>
    /\ Outcome.success
         => /\ actionPlan.kind = "array"
            /\ Len(outcomes) = Len(Steps) /\ AllOk
            /\ Len(results) = Len(Steps)
            /\ \A i \in 1..Len(Steps) :
                 InCatalog(Steps[i].tool) /\ calls[i].name = Steps[i].tool
    /\ (~AllOk \/ FirstMissing # 0) => ~Outcome.success /\ Outcome.logs = logs

\* a three-step plan answered with success
C7_Witness ==
  /\ Returned /\ Outcome.success /\ Len(Steps) = 3 /\ Len(results) = 3

ParseFailed ==
  \E i \in 1..Len(logs) : logs[i].msg = "Error parsing Claude plan"

\* C14: when parseClaudeResponse throws, the error does not reach the catch
\* block of POST; the plan executed is the single action content_items.list,
\* whose parameters hold itemId exactly when the request carried a page id,
\* and the request succeeds when that action and the summary do.
C14_ParseFailureFallsBack ==
  /\ actionPlan.kind # "none" /\ planMessage.text = <<"x", "_", "x">> => ParseFailed
  /\ ParseFailed =>
       /\ ~PlanParsed
       /\ actionPlan.kind = "array" /\ Len(Steps) = 1
       /\ Steps[1].tool = "content_items.list"
       /\ Includes(Steps[1].parameters, "itemId") <=> pageContext = "id"
       /\ Includes(Steps[1].parameters, "page") /\ Includes(Steps[1].parameters, "pageSize")
       /\ thrown.msg \in {"", "Tool not available", "Error executing tool",
                          "Error executing tool: Error in step", "Anthropic error"}
       /\ Len(calls) <= 1
       /\ \A i \in 1..Len(calls) :
            calls[i] = [name |-> "content_items.list", arguments |-> Steps[1].parameters]
       /\ Returned /\ thrown = NoError => Outcome.success /\ Len(results) = 1

\* prose instead of a plan, no page id: the fallback listing ran and the
\* request succeeded
C14_Witness ==
  /\ Returned /\ ParseFailed /\ Outcome.success /\ pageContext = "noId"
  /\ Len(results) = 1 /\ ~Includes(calls[1].arguments, "itemId")

SuccessFields == {"success", "status", "logs", "actionPlan", "results", "response"}
FailureFields == {"success", "status", "error", "logs", "details"}

Labels ==
  {"connect", "listTools", "schemas", "call", "sleep", "planText", "parse",
   "loop", "awaitTool", "respond", "catch", "finally", "done"}

\* C15: a request returns at most one response, and has returned exactly one
\* when it ends: the success response when nothing was thrown, else the
\* failure response with status 500 and the error as its details.  Whatever
\* is thrown inside the try block reaches the catch block, and POST never
\* stands at a point it cannot leave: its loops are bounded and each point
\* before the end has a next step.
C15_ExactlyOneOutcome ==
  /\ Len(responses) <= 1
  /\ Returned => Len(responses) = 1
  /\ Len(responses) = 1 =>
       /\ pc \in {"finally", "done"}
       /\ Outcome.success <=> thrown = NoError
       /\ Outcome.success =>
            /\ DOMAIN Outcome = SuccessFields /\ Outcome.status = 200
            /\ Outcome.actionPlan = actionPlan /\ Outcome.results = results
       /\ ~Outcome.success =>
            /\ DOMAIN Outcome = FailureFields /\ Outcome.status = 500
            /\ Outcome.error = "AI agent error" /\ Outcome.details = thrown
  /\ thrown # NoError /\ responses = << >> => pc = "catch"
  /\ pc \in {"catch", "finally", "done"} /\ thrown = NoError => Len(responses) = 1
  /\ pc \in Labels
  /\ pc = "schemas" => Len(toolsWithSchemas) <= Len(toolsResponse)
  /\ pc \in {"call", "sleep"} => attempt <= 3 /\ phase \in {"plan", "summary"}
  /\ pc = "loop" /\ actionPlan.kind = "array" => index <= Len(Steps) + 1
  /\ pc = "awaitTool" => index <= Len(Steps) /\ inflight = 1

\* a request whose body could not be read returned the failure response
C15_Witness ==
  /\ Returned /\ Len(responses) = 1 /\ ~Outcome.success
  /\ thrown.msg = "Unexpected token in JSON" /\ modelCalls = 0

\* C16: every step of a request leaves the log it found as a prefix of the
\* log it leaves, and the log of the response, success or failure, is the
\* whole log of the request.
C16_LogAppendOnly ==
  /\ [][IsPrefix(logs, logs')]_vars
  /\ [](Len(responses) = 1 => Outcome.logs = logs)

\* a failure response carrying the log of a fallback plan whose tool the
\* server did not list
C16_Witness ==
  /\ Returned /\ ~Outcome.success /\ ParseFailed
  /\ thrown.msg = "Tool not available" /\ Outcome.logs = logs
  /\ Outcome.logs[Len(Outcome.logs)].msg = "Tool not available"

\* The order in which POST passes through its stretches of code: the number
\* of a stretch never grows.
Stage ==
  CASE pc = "connect" -> 12
    [] pc = "listTools" -> 11
    [] pc = "schemas" -> 10
    [] pc \in {"call", "sleep"} /\ phase = "plan" -> 9
    [] pc = "planText" -> 8
    [] pc = "parse" -> 7
    [] pc \in {"loop", "awaitTool"} -> 6
    [] pc \in {"call", "sleep"} /\ phase = "summary" -> 5
    [] pc = "respond" -> 4
    [] pc = "catch" -> 3
    [] pc = "finally" -> 2
    [] pc = "done" -> 1
    [] OTHER -> 0

\* What is left to do inside a stretch that loops: the tools without a
\* catalog entry, the attempts left to the gateway, the actions left to run.
Remaining ==
  CASE pc = "schemas" -> Len(toolsResponse) - Len(toolsWithSchemas)
    [] pc = "call" -> 2 * (4 - attempt)
    [] pc = "sleep" -> 2 * (4 - attempt) + 1
    [] pc = "loop" ->
         IF actionPlan.kind = "array" THEN 2 * (Len(Steps) - index + 1) + 1 ELSE 0
    [] pc = "awaitTool" -> 2 * (Len(Steps) - index + 1)
    [] OTHER -> 0

\* the guard of some action of POST holds
HasNextStep ==
  \/ pc \in {"connect", "listTools", "sleep", "planText", "parse", "respond",
              "catch", "finally"}
  \/ pc = "schemas" /\ Len(toolsWithSchemas) <= Len(toolsResponse)
  \/ pc = "call" /\ phase \in {"plan", "summary"}
  \/ pc = "loop" /\ index >= 1
  \/ pc = "awaitTool" /\ index \in 1..Len(Steps)

\* C22: every step of a request moves POST to a later stretch of code or,
\* within the schema loop, the retry loop and the plan loop, lowers what is
\* left to do, which is never negative; and POST stands nowhere but at its
\* end without a next step.  So no request runs forever once every awaited
\* call settles.
C22_EveryStepDescends ==
  /\ [][\/ Stage' < Stage
        \/ Stage' = Stage /\ Remaining' < Remaining]_vars
  /\ [](Stage >= 1 /\ Remaining >= 0)
  /\ [](~Returned => HasNextStep)

\* a request that retried the plan call three times, ran a plan of three
\* actions and retried the summary call before it returned
C22_Witness ==
  /\ Returned /\ Len(Steps) = 3 /\ Len(results) = 3 /\ Len(sleeps) >= 4
  /\ phase = "summary"

\* C23: in a success response, results has one entry per action of the plan,
\* the i-th being what the i-th callTool, issued for the i-th action,
\* returned, and none reports isError; a request with an empty plan makes
\* no invocation and, its summary obtained, succeeds with no results.
C23_ResultsAlignedWithPlan ==
  /\ Returned /\ Outcome.success =>
       /\ Outcome.actionPlan.kind = "array"
       /\ Len(Outcome.results) = Len(Outcome.actionPlan.items)
       /\ Len(calls) = Len(Outcome.results)
       /\ \A i \in 1..Len(Outcome.results) :
            /\ Outcome.results[i].call = i
            /\ ~Outcome.results[i].isError
            /\ outcomes[i] = "ok"
            /\ calls[i].name = Outcome.actionPlan.items[i].tool
            /\ calls[i].arguments = Outcome.actionPlan.items[i].parameters
  /\ Returned /\ actionPlan.kind = "array" /\ Steps = << >> =>
       /\ calls = << >> /\ results = << >>
       /\ thrown.msg \in {"", "Anthropic error"}
       /\ thrown = NoError => Outcome.success /\ Outcome.results = << >>

\* the plan [] answered with success and no results
C23_Witness ==
  /\ Returned /\ Outcome.success /\ planMessage.text = <<"[", "]">>
  /\ Outcome.results = << >> /\ modelCalls = 2

\* model texts that are JSON values other than an array
ObjectText == <<"{", "a", "}">>
ScalarText == <<"n">>
NullText == <<"N">>

PastParse == actionPlan.kind # "none"

\* C24 as claimed: when the model text is JSON that is not an array, no tool
\* is invoked, the fallback plan is not used and the request fails.
C24_NonArrayNeverFallsBack ==
  PastParse /\ planMessage.text \in {ObjectText, ScalarText, NullText} =>
    /\ calls = << >>
    /\ ~ParseFailed
    /\ Returned => ~Outcome.success

\* C24 amended: callTool is issued only while the plan is an array, parsed
\* or fallback.  A text that is a JSON object, number, string or boolean
\* leaves a plan that is no array: no tool is invoked, the fallback is not
\* used and the request fails at the head of the plan loop.  The text null
\* makes the length read throw inside the parse try block, and the fallback
\* plan is run.
C24_NonArrayFailsExceptNull ==
  /\ calls # << >> \/ inflight > 0 => actionPlan.kind = "array"
  /\ parseClaudeResponse(ObjectText).kind = "object"
  /\ parseClaudeResponse(ScalarText).kind = "scalar"
  /\ parseClaudeResponse(NullText).kind = "null"
  /\ PastParse /\ planMessage.text \in {ObjectText, ScalarText} =>
       /\ actionPlan.kind \in {"object", "scalar"}
       /\ calls = << >> /\ ~ParseFailed
       /\ pc \in {"loop", "catch", "finally", "done"}
       /\ pc # "loop" => thrown = Line("actionPlan.entries is not a function", 0, "")
       /\ Returned => ~Outcome.success /\ Outcome.details = thrown
  /\ PastParse /\ planMessage.text = NullText =>
       /\ ParseFailed /\ actionPlan = FallbackPlan(pageContext)
       /\ \A i \in 1..Len(calls) : calls[i].name = "content_items.list"

\* the text null: the fallback listing was invoked and the request succeeded
C24_Witness ==
  /\ Returned /\ planMessage.text = NullText /\ Outcome.success
  /\ Len(calls) = 1 /\ calls[1].name = "content_items.list"

RetryLines(log) ==
  Cardinality({i \in 1..Len(log) :
                 log[i].msg = "Rate limit detected from Anthropic, retrying"})

\* C21 as claimed: the log returned to the caller holds one retry line, with
\* delay and attempt number, for each backoff sleep of the request.
C21_RetryLinesInAuditLog ==
  Returned => RetryLines(Outcome.logs) = Len(sleeps)

---------------------------------------------------------------------------
(* Properties of parseClaudeResponse, checked under ParseSpec.             *)

Parsed == pStage = "parsed"

\* the number of plan objects that lie whole in a bare text
CompleteCount ==
  LET whole == {m \in 0..Len(pPlan) : Len(RenderUpTo(pPlan, pPretty, m)) <= Len(pText)} IN
    IF whole = {} THEN 0 ELSE Max(whole)

\* C8 as claimed: from a bare array text cut off before its closing bracket
\* that holds at least one complete object, the parser returns exactly the
\* complete objects, in order.
C8_CutArrayKeepsCompleteObjects ==
  Parsed /\ pCut /\ ~pFenced /\ CompleteCount >= 1
    => /\ ~pOut.threw /\ pOut.kind = "array"
       /\ pOut.items = SubSeq(PlanObjects(pPlan), 1, CompleteCount)

---------------------------------------------------------------------------
(* Properties of sendAnthropicMessages, checked under GatewaySpec.         *)

\* the three rate-limit signals of an error
RateSignal(err) == err.status = 429 \/ err.type = "rate_limit_error" \/ err.rateWords

GatewayReturned == pc \in {"planText", "respond"}
GatewayRaised == pc = "catch"

\* C11: a failed call is followed by a sleep and a further call only if its
\* error carries a rate-limit signal (status 429, type rate_limit_error or the
\* words "rate limit"), and each of the three signals alone is retried while
\* retries remain; an error without a signal is raised at once, with no call
\* and no sleep after the failed call, so none at all on the first attempt.
C11_OnlyRateLimitRetried ==
  /\ pc = "sleep" => RateSignal(lastErr)
  /\ Len(sleeps) >= 1 => lastErr # NullErr
  /\ GatewayRaised /\ attempt <= 3 => ~RateSignal(lastErr)
  /\ lastErr # NullErr /\ ~RateSignal(lastErr)
       => /\ GatewayRaised
          /\ thrown = Line("Anthropic error", lastErr.status, lastErr.type)
          /\ modelCalls = attempt
          /\ Len(sleeps) = modelCalls - 1 /\ Len(console) = modelCalls - 1
          /\ modelCalls = 1 => sleeps = << >> /\ console = << >>

\* an error without a rate-limit signal on the third call, after two retries
C11_Witness ==
  /\ GatewayRaised /\ ~RateSignal(lastErr) /\ modelCalls = 3 /\ Len(sleeps) = 2

\* C12: the k-th sleep of a gateway call lasts 500 * 2^(k-1), each sleep
\* twice the one before, and one retry line is written per sleep; a call
\* that succeeds at its third attempt returns after the sleeps 500 and 1000
\* and two retry lines.
C12_BackoffDoubles ==
  /\ \A k \in 1..Len(sleeps) : sleeps[k] = 500 * 2 ^ (k - 1)
  /\ \A k \in 1..(Len(sleeps) - 1) : sleeps[k + 1] = 2 * sleeps[k]
  /\ Len(console) = Len(sleeps) + (IF pc = "sleep" THEN 1 ELSE 0)
  /\ \A k \in 1..Len(console) :
       /\ console[k].msg = "Rate limit detected from Anthropic, retrying"
       /\ console[k].step = k
       /\ console[k].arg = ToString(500 * 2 ^ (k - 1))
  /\ GatewayReturned /\ modelCalls = 3
       => sleeps = <<500, 1000>> /\ Len(console) = 2

\* the third call returned a message, after two rate-limited calls
C12_Witness ==
  /\ GatewayReturned /\ modelCalls = 3 /\ sleeps = <<500, 1000>>
  /\ planMessage.type = "text"

\* C13: a gateway call makes at most 4 model calls and 3 sleeps; when every
\* call is rate limited it raises after the fourth call, and what it raises
\* is the error of that last call.
C13_BoundedRetries ==
  /\ modelCalls <= 4 /\ Len(sleeps) <= 3 /\ attempt <= 4
  /\ modelCalls \in {Len(sleeps), Len(sleeps) + 1}
  /\ GatewayRaised => thrown = Line("Anthropic error", lastErr.status, lastErr.type)
  /\ GatewayRaised /\ RateSignal(lastErr)
       => modelCalls = 4 /\ Len(sleeps) = 3 /\ sleeps[3] = 2000

\* four rate-limited calls, then the raise
C13_Witness ==
  /\ GatewayRaised /\ RateSignal(lastErr) /\ modelCalls = 4 /\ Len(sleeps) = 3

---------------------------------------------------------------------------
(* Properties of the planning message batch, checked under MessagesSpec.   *)

\* C17: the batch holds the last min(10, n) entries of a history of n
\* entries, in their order, each with its role and content and nothing else,
\* and after them one user message with the current prompt; no entry older
\* than the last ten is in it.
C17_RecentHistoryForwarded ==
  mStage = "built" =>
    LET n == Len(mHistory.entries)
        k == IF n < 10 THEN n ELSE 10
    IN /\ Len(mMessages) = k + 1
       /\ \A i \in 1..k :
            /\ mMessages[i] = [role |-> mHistory.entries[n - k + i].role,
                               content |-> mHistory.entries[n - k + i].content]
            /\ mMessages[i].content.turn = n - k + i
            /\ mMessages[i].content.turn > n - 10
       /\ mMessages[k + 1].role = "user"
       /\ mMessages[k + 1].content.prompt = "prompt"
       /\ mMessages[k + 1].content.pageId = IF mContext = "id" THEN "id" ELSE "unknown"

\* a history of twelve entries: entries 3 to 12 and the prompt are sent
C17_Witness ==
  /\ mStage = "built" /\ Len(mHistory.entries) = 12 /\ Len(mMessages) = 11
  /\ mMessages[1].content.turn = 3 /\ mMessages[10].content.turn = 12

---------------------------------------------------------------------------
(* Properties of discovery, checked under Spec.                            *)

ErrorsOfPOST ==
  {"", "MCP connection failed", "Unexpected token in JSON", "Anthropic error",
   "Unsupported content type", "actionPlan.entries is not a function",
   "Tool not available", "Error executing tool", "Error executing tool: Error in step"}

\* C18: the catalog built by the schema loop holds the tools of listTools in
\* their order, a tool whose schema could not be fetched included, with a
\* null schema; a schema failure is never the error of a request, and the
\* loop goes on to the end of the list.
C18_SchemaFailureKeepsTool ==
  /\ Len(toolsWithSchemas) <= Len(toolsResponse)
  /\ \A i \in 1..Len(toolsWithSchemas) :
       /\ toolsWithSchemas[i].name = toolsResponse[i]
       /\ toolsWithSchemas[i].schema \in {"schema", "null"}
  /\ pc \notin {"connect", "listTools"} => toolsResponse = toolsList
  /\ phase # "none" => Len(toolsWithSchemas) = Len(toolsResponse)
  /\ pc = "schemas" => thrown = NoError
  /\ thrown.msg \in ErrorsOfPOST

\* the schema of the second of three tools could not be fetched, and the
\* request succeeded
C18_Witness ==
  /\ Returned /\ Outcome.success /\ Len(toolsWithSchemas) = 3
  /\ toolsWithSchemas[2].schema = "null" /\ toolsWithSchemas[3].schema = "schema"

\* C19: a model call is made only with the connection established and a
\* catalog entry, schema or null, for every listed tool; a request whose
\* connection fails returns the failure response without any model call or
\* tool invocation.
C19_DiscoveryBeforePlanning ==
  /\ modelCalls > 0 \/ pc = "call" =>
       /\ client = "open"
       /\ Len(toolsWithSchemas) = Len(toolsList)
       /\ \A i \in 1..Len(toolsList) : toolsWithSchemas[i].name = toolsList[i]
  /\ pc \in {"connect", "listTools", "schemas"} => modelCalls = 0 /\ calls = << >>
  /\ pc = "call" /\ modelCalls = 0 => transport = "connected"
  /\ thrown.msg = "MCP connection failed" =>
       /\ modelCalls = 0 /\ calls = << >> /\ client = "null"
       /\ messages = << >> /\ toolsWithSchemas = << >>
       /\ Returned => ~Outcome.success /\ Outcome.details = thrown

\* the connection could not be established and the request has returned
C19_Witness ==
  /\ Returned /\ thrown = Line("MCP connection failed", 0, "connectFails")
  /\ ~Outcome.success /\ modelCalls = 0 /\ closeCalls = 0

---------------------------------------------------------------------------
(* Properties of buildToolsDescription, checked under DescSpec.            *)

Count(text, c) == Cardinality({i \in 1..Len(text) : text[i] = c})

EndsWithText(text, tail) ==
  Len(tail) <= Len(text) /\ SubSeq(text, Len(text) - Len(tail) + 1, Len(text)) = tail

\* C20: the text returned holds at most maxTools tool lines; the text before
\* the cut holds the first min(n, maxTools) tools and, exactly when n exceeds
\* maxTools, ends with the line counting the n - maxTools tools left out; the
\* text returned is that text when it has at most maxChars characters, else
\* its first maxChars characters and three dots, so never more than
\* maxChars + 3 characters.
C20_DescriptionCapped ==
  dStage = "returned" =>
    LET n == Len(dTools)
        shown == IF n < dMaxTools THEN n ELSE dMaxTools
        result == DescriptionText(dTools, dMaxTools)
    IN /\ Count(dOut, "-") <= dMaxTools
       /\ Len(dOut) <= dMaxChars + 3
       /\ Count(result, "-") = shown
       /\ n > dMaxTools <=> EndsWithText(result, MoreTools(n - dMaxTools))
       /\ n <= dMaxTools => Count(result, "m") = 0
       /\ Len(result) <= dMaxChars => dOut = result
       /\ Len(result) > dMaxChars =>
            /\ dOut = SubSeq(result, 1, dMaxChars) \o <<".", ".", ".">>
            /\ Len(dOut) = dMaxChars + 3

\* three tools, two rendered in full, and the line for the one left out
C20_Witness ==
  /\ dStage = "returned" /\ Len(dTools) = 3 /\ dMaxTools = 2 /\ dMaxChars = 2000
  /\ Count(dOut, "-") = 2 /\ EndsWithText(dOut, MoreTools(1))
  /\ dTools[1].description = 81

---------------------------------------------------------------------------
(* Properties of the IAgent component, checked under ComponentSpec.        *)

\* C25 as claimed: a step of the component leaves the history as it is, or
\* empties it (clearHistory), or, a success answer arriving, appends to it
\* the submitted prompt as a user message and the response text as an
\* assistant message; an answer of failure and a thrown fetch leave it as
\* it is.
C25_HistoryAppendsTwoOrClears ==
  [][\/ uHistory' = uHistory
     \/ uHistory # << >> /\ uHistory' = << >> /\ uFlight' = uFlight
     \/ /\ uFlight.active /\ ~uFlight'.active /\ uResponse' = "data"
        /\ Len(uHistory') = Len(uHistory) + 2
        /\ SubSeq(uHistory', 1, Len(uHistory)) = uHistory
        /\ uHistory'[Len(uHistory) + 1].role = "user"
        /\ uHistory'[Len(uHistory) + 1].content = uFlight.prompt
        /\ uHistory'[Len(uHistory) + 2].role = "assistant"
        /\ uHistory'[Len(uHistory) + 2].content = "data.response"]_vars

\* C26 as claimed: once a request has completed, the history holds none of
\* the messages that clearHistory removed while that request was in flight.
C26_ClearedMessagesStayCleared ==
  ~uFlight.active => Entries(uHistory) \cap uDropped = {}

====
